---- MODULE Spec2Model ----
(***************************************************************************)
(* Device nodes of kernel/src/fs/stdio.rs: the console-input queue         *)
(* (Stdin), the audio sink (Dsp) and the GPIO output pin (GPIOOutput).     *)
(* Every execution context is a thread with a program counter; one action  *)
(* is one atomic step of the Rust code (one lock-protected statement).     *)
(***************************************************************************)
EXTENDS Integers, Sequences, FiniteSets, TLC

\* ---- bounds of the model ------------------------------------------------
NumConsumers == 2        \* threads calling Stdin::pop directly
NumReaders == 1          \* threads calling read_at on the console-input node
NumProducers == 1        \* contexts calling Stdin::push
MaxPush == 3             \* total number of push calls
MaxBufLen == 2           \* longest caller buffer handed to Stdin::read_at

NumGpio == 2             \* threads calling write_at / ioctl on the GPIO node
NumDsp == 2              \* threads calling write_at / ioctl on the audio sink
MaxDspOps == 4           \* total number of calls made on the audio sink

Consumers == 1..NumConsumers
Readers == (NumConsumers + 1)..(NumConsumers + NumReaders)
StdinThreads == Consumers \cup Readers
Producers == 1..NumProducers
GpioThreads == 1..NumGpio
DspThreads == 1..NumDsp

\* characters pushed by the console: 'h', 'i', 'x' and U+0161, whose code
\* point does not fit a byte
Chars == {104, 105, 120, 353}
Offsets == {0, 5}

\* 32-bit ioctl requests: pins 0, 12 and 53, the first invalid index 54, a value
\* whose low byte is a valid pin (256 + 12), and a value with the high bits
\* set (0x7FFFFFFF)
Requests == {0, 12, 53, 54, 268, 2147483647}
\* ioctl requests of the audio sink: 0 = reset, 1 = play, two undefined codes
DspRequests == {0, 1, 2, 2147483647}
\* caller buffers of write_at
Bufs == {<<>>, <<7>>, <<8, 9>>}

\* lengths of the caller buffers of read_at: empty, one byte, and longer
BufLens == {0, 1, MaxBufLen}

None == -1               \* Option::None of pop_front
NoCount == -1            \* no result returned yet

VARIABLES
    buf,        \* Stdin.buf: VecDeque<char>
    waitq,      \* Stdin.pushed: the Condvar's queue of suspended threads
    cpc,        \* position of each thread inside pop
    cop,        \* the thread's current call: "pop" or "read_at"
    ret,        \* local `ret` of pop (Option<char>)
    ubuf,       \* caller's buffer of read_at
    rcount,     \* Ok(n) returned by read_at
    npop,       \* elements removed from the queue by the current call
    ppc,        \* producer position
    pushed,     \* history: every pushed character, in push_back order
    popped,     \* history: every removed character, in pop_front order
    signals,    \* history: number of notify_one calls made by push
    pin,        \* GPIOOutput.pin: the value inside the RwLock<u8>
    rwReaders,  \* threads holding a read guard of GPIOOutput.pin
    rwWriters,  \* threads holding the write guard of GPIOOutput.pin
    gpc,        \* GPIO thread position
    gop,        \* GPIO thread's current call: "write_at" or "ioctl"
    greq,       \* `request` of the current ioctl
    gpin,       \* pin number held by the local `my_gpio`
    gres,       \* result returned by the call
    gcount,     \* Ok(n) returned by write_at
    outputs,    \* hardware: pins configured as outputs
    high,       \* hardware: pins driven high
    lastOk,     \* history: request of the latest ioctl that stored the pin
    overlapped, \* history: an ioctl stored the pin during this write_at call
    dspbuf,     \* Dsp.buf: Vec<u8>
    dpc,        \* audio thread position
    dop,        \* audio thread's current call
    dres,       \* result returned by the call
    dcount,     \* Ok(n) returned by write_at
    dlen,       \* local `len` of ioctl's play branch
    playing,    \* backend: PlaybackActive() of the thread's sound_device
    handed,     \* backend: the bytes and the length given to Playback
    dspLog,     \* history: the calls in the order they took effect on Dsp.buf
    dspLock,    \* Dsp.buf's Mutex: the threads holding its guard
    dcalls,     \* history: number of calls made on the audio sink
    fsres       \* the latest call of an INode method without device logic

stdinVars == <<buf, waitq, cpc, cop, ret, ubuf, rcount, npop, ppc,
               pushed, popped, signals>>

gpioVars == <<pin, rwReaders, rwWriters, gpc, gop, greq, gpin, gres, gcount,
              outputs, high, lastOk, overlapped>>

dspVars == <<dspbuf, dpc, dop, dres, dcount, dlen, playing, handed, dspLog,
            dspLock, dcalls>>

inodeVars == <<fsres>>

vars == <<stdinVars, gpioVars, dspVars, inodeVars>>

\* ---- Stdin ----------------------------------------------------------------

\* `c as u8` for a char: the low eight bits of the code point
AsU8(c) == c % 256

\* contents of a caller buffer before the call (distinct recognisable bytes)
FreshBuf(len) == [i \in 1..len |-> 200 + i]

\* Condvar::notify_one: take the first suspended thread off the queue, if any
NotifyOne(wq) == IF wq = <<>> THEN <<>> ELSE Tail(wq)
NotifyOneWoken(wq) == IF wq = <<>> THEN {} ELSE {Head(wq)}

InitStdin ==
    /\ buf = <<>>
    /\ waitq = <<>>
    /\ cpc = [c \in StdinThreads |-> "idle"]
    /\ cop = [c \in StdinThreads |-> "pop"]
    /\ ret = [c \in StdinThreads |-> None]
    /\ ubuf = [c \in StdinThreads |-> <<>>]
    /\ rcount = [c \in StdinThreads |-> NoCount]
    /\ npop = [c \in StdinThreads |-> 0]
    /\ ppc = [p \in Producers |-> "idle"]
    /\ pushed = <<>>
    /\ popped = <<>>
    /\ signals = 0

\* a push that puts the character at the head of the queue (push_front)
PushFront(p, c) ==
    /\ ppc[p] = "idle"
    /\ Len(pushed) < MaxPush
    /\ buf' = <<c>> \o buf
    /\ pushed' = Append(pushed, c)
    /\ ppc' = [ppc EXCEPT ![p] = "notify"]
    /\ UNCHANGED <<waitq, cpc, cop, ret, ubuf, rcount, npop, popped, signals,
                 gpioVars, dspVars, inodeVars>>

\* push, line 25: self.buf.lock().push_back(c)
Push(p, c) ==
    /\ ppc[p] = "idle"
    /\ Len(pushed) < MaxPush
    /\ buf' = Append(buf, c)
    /\ pushed' = Append(pushed, c)
    /\ ppc' = [ppc EXCEPT ![p] = "notify"]
    /\ UNCHANGED <<waitq, cpc, cop, ret, ubuf, rcount, npop, popped, signals,
                 gpioVars, dspVars, inodeVars>>

\* a push that wakes every suspended consumer (notify_all)
PushNotifyAll(p) ==
    /\ ppc[p] = "notify"
    /\ waitq' = <<>>
    /\ cpc' = [c \in StdinThreads |-> IF cpc[c] = "waiting" THEN "loop" ELSE cpc[c]]
    /\ signals' = signals + 1
    /\ ppc' = [ppc EXCEPT ![p] = "idle"]
    /\ UNCHANGED <<buf, cop, ret, ubuf, rcount, npop, pushed, popped,
                 gpioVars, dspVars, inodeVars>>

\* push, line 26: self.pushed.notify_one()
PushNotify(p) ==
    /\ ppc[p] = "notify"
    /\ waitq' = NotifyOne(waitq)
    /\ cpc' = [c \in StdinThreads |->
                 IF c \in NotifyOneWoken(waitq) THEN "loop" ELSE cpc[c]]
    /\ signals' = signals + 1
    /\ ppc' = [ppc EXCEPT ![p] = "idle"]
    /\ UNCHANGED <<buf, cop, ret, ubuf, rcount, npop, pushed, popped,
                 gpioVars, dspVars, inodeVars>>

\* a thread calls Stdin::pop directly
CallPop(c) ==
    /\ cpc[c] \in {"idle", "done"}
    /\ cpc' = [cpc EXCEPT ![c] = "loop"]
    /\ cop' = [cop EXCEPT ![c] = "pop"]
    /\ ret' = [ret EXCEPT ![c] = None]
    /\ ubuf' = [ubuf EXCEPT ![c] = <<>>]
    /\ rcount' = [rcount EXCEPT ![c] = NoCount]
    /\ npop' = [npop EXCEPT ![c] = 0]
    /\ UNCHANGED <<buf, waitq, ppc, pushed, popped, signals,
                 gpioVars, dspVars, inodeVars>>

\* a thread calls read_at(offset, buf) on the console-input node
CallReadAt(c, offset, len) ==
    /\ cpc[c] \in {"idle", "done"}
    /\ cpc' = [cpc EXCEPT ![c] = "loop"]
    /\ cop' = [cop EXCEPT ![c] = "read_at"]
    /\ ret' = [ret EXCEPT ![c] = None]
    /\ ubuf' = [ubuf EXCEPT ![c] = FreshBuf(len)]
    /\ rcount' = [rcount EXCEPT ![c] = NoCount]
    /\ npop' = [npop EXCEPT ![c] = 0]
    /\ UNCHANGED <<buf, waitq, ppc, pushed, popped, signals,
                 gpioVars, dspVars, inodeVars>>

\* a pop that takes the newest element instead of the oldest
PopBack(q) == [val |-> q[Len(q)], rest |-> SubSeq(q, 1, Len(q) - 1)]

\* VecDeque::pop_front on a non-empty queue: the element removed and the rest
PopFront(q) == [val |-> Head(q), rest |-> Tail(q)]

\* a pop without the retry loop: an empty queue yields the default character
PopNoneReturns(c) ==
    /\ cpc[c] = "loop"
    /\ buf = <<>>
    /\ ret' = [ret EXCEPT ![c] = 0]
    /\ cpc' = [cpc EXCEPT ![c] = "done"]
    /\ UNCHANGED <<buf, waitq, cop, ubuf, rcount, npop, ppc, pushed, popped, signals,
                 gpioVars, dspVars, inodeVars>>

\* pop, lines 32-33 and 35 up to the call of _wait: pop_front finds the queue
\* empty, the lock is released at the end of the `let`
PopNone(c) ==
    /\ cpc[c] = "loop"
    /\ buf = <<>>
    /\ ret' = [ret EXCEPT ![c] = None]
    /\ cpc' = [cpc EXCEPT ![c] = "none"]
    /\ UNCHANGED <<buf, waitq, cop, ubuf, rcount, npop, ppc, pushed, popped, signals,
                 gpioVars, dspVars, inodeVars>>

\* pop, line 35: None => self.pushed._wait(), the thread joins the Condvar's
\* queue and is suspended
PopWait(c) ==
    /\ cpc[c] = "none"
    /\ waitq' = Append(waitq, c)
    /\ cpc' = [cpc EXCEPT ![c] = "waiting"]
    /\ UNCHANGED <<buf, cop, ret, ubuf, rcount, npop, ppc, pushed, popped, signals,
                 gpioVars, dspVars, inodeVars>>

\* a suspended thread resumes without having been notified
SpuriousWakeup(c) ==
    /\ cpc[c] = "waiting"
    /\ \E i \in 1..Len(waitq) :
         /\ waitq[i] = c
         /\ waitq' = SubSeq(waitq, 1, i - 1) \o SubSeq(waitq, i + 1, Len(waitq))
    /\ cpc' = [cpc EXCEPT ![c] = "loop"]
    /\ UNCHANGED <<buf, cop, ret, ubuf, rcount, npop, ppc, pushed, popped, signals,
                 gpioVars, dspVars, inodeVars>>

\* pop, lines 32-34 for a direct caller: pop_front finds Some(c) => return c
PopSome(c) ==
    /\ cpc[c] = "loop"
    /\ cop[c] = "pop"
    /\ buf # <<>>
    /\ ret' = [ret EXCEPT ![c] = PopFront(buf).val]
    /\ buf' = PopFront(buf).rest
    /\ popped' = Append(popped, PopFront(buf).val)
    /\ npop' = [npop EXCEPT ![c] = npop[c] + 1]
    /\ cpc' = [cpc EXCEPT ![c] = "done"]
    /\ UNCHANGED <<waitq, cop, ubuf, rcount, ppc, pushed, signals,
                 gpioVars, dspVars, inodeVars>>

\* a read_at that reports the whole buffer length as transferred
ReadAtSomeLen(c) ==
    /\ cpc[c] = "loop"
    /\ cop[c] = "read_at"
    /\ buf # <<>>
    /\ ret' = [ret EXCEPT ![c] = PopFront(buf).val]
    /\ buf' = PopFront(buf).rest
    /\ popped' = Append(popped, PopFront(buf).val)
    /\ npop' = [npop EXCEPT ![c] = npop[c] + 1]
    /\ IF Len(ubuf[c]) = 0
       THEN /\ cpc' = [cpc EXCEPT ![c] = "panicked"]
            /\ UNCHANGED <<ubuf, rcount>>
       ELSE /\ ubuf' = [ubuf EXCEPT ![c][1] = AsU8(PopFront(buf).val)]
            /\ rcount' = [rcount EXCEPT ![c] = Len(ubuf[c])]
            /\ cpc' = [cpc EXCEPT ![c] = "done"]
    /\ UNCHANGED <<waitq, cop, ppc, pushed, signals,
                 gpioVars, dspVars, inodeVars>>

\* read_at, lines 99-100: buf[0] = self.pop() as u8; Ok(1), from the pop_front
\* that finds Some(c) on (indexing an empty slice panics, after the pop)
ReadAtSome(c) ==
    /\ cpc[c] = "loop"
    /\ cop[c] = "read_at"
    /\ buf # <<>>
    /\ ret' = [ret EXCEPT ![c] = PopFront(buf).val]
    /\ buf' = PopFront(buf).rest
    /\ popped' = Append(popped, PopFront(buf).val)
    /\ npop' = [npop EXCEPT ![c] = npop[c] + 1]
    /\ IF Len(ubuf[c]) = 0
       THEN /\ cpc' = [cpc EXCEPT ![c] = "panicked"]
            /\ UNCHANGED <<ubuf, rcount>>
       ELSE /\ ubuf' = [ubuf EXCEPT ![c][1] = AsU8(PopFront(buf).val)]
            /\ rcount' = [rcount EXCEPT ![c] = 1]
            /\ cpc' = [cpc EXCEPT ![c] = "done"]
    /\ UNCHANGED <<waitq, cop, ppc, pushed, signals,
                 gpioVars, dspVars, inodeVars>>

\* the queue used through push and pop
NextStdin ==
    \/ \E p \in Producers, c \in Chars : Push(p, c)
    \/ \E p \in Producers : PushNotify(p)
    \/ \E c \in Consumers : CallPop(c)
    \/ \E c \in Consumers : PopNone(c)
    \/ \E c \in Consumers : PopWait(c)
    \/ \E c \in Consumers : SpuriousWakeup(c)
    \/ \E c \in Consumers : PopSome(c)

\* the console-input node used through read_at
NextReadAt ==
    \/ \E p \in Producers, c \in Chars : Push(p, c)
    \/ \E p \in Producers : PushNotify(p)
    \/ \E c \in Readers, offset \in Offsets, len \in BufLens :
           CallReadAt(c, offset, len)
    \/ \E c \in Readers : PopNone(c)
    \/ \E c \in Readers : PopWait(c)
    \/ \E c \in Readers : SpuriousWakeup(c)
    \/ \E c \in Readers : ReadAtSome(c)

\* ---- GPIOOutput -----------------------------------------------------------

\* `request as u8`: the low eight bits of the u32
RequestAsU8(request) == request % 256

\* GPIO = GPIOOutput::new(0)
InitGpio ==
    /\ pin = 0
    /\ rwReaders = {}
    /\ rwWriters = {}
    /\ gpc = [t \in GpioThreads |-> "idle"]
    /\ gop = [t \in GpioThreads |-> "write_at"]
    /\ greq = [t \in GpioThreads |-> None]
    /\ gpin = [t \in GpioThreads |-> None]
    /\ gres = [t \in GpioThreads |-> "none"]
    /\ gcount = [t \in GpioThreads |-> NoCount]
    /\ outputs = {}
    /\ high = {}
    /\ lastOk = 0
    /\ overlapped = [t \in GpioThreads |-> FALSE]

\* a thread calls write_at(offset, buf) on the GPIO node
GpioCallWriteAt(t, offset, data) ==
    /\ gpc[t] \in {"idle", "done"}
    /\ gpc' = [gpc EXCEPT ![t] = "read"]
    /\ gop' = [gop EXCEPT ![t] = "write_at"]
    /\ greq' = [greq EXCEPT ![t] = None]
    /\ gpin' = [gpin EXCEPT ![t] = None]
    /\ gres' = [gres EXCEPT ![t] = "none"]
    /\ gcount' = [gcount EXCEPT ![t] = NoCount]
    /\ overlapped' = [overlapped EXCEPT ![t] = FALSE]
    /\ UNCHANGED <<pin, rwReaders, rwWriters, outputs, high, lastOk,
                 stdinVars, dspVars, inodeVars>>

\* write_at, line 163: self.pin.read() is granted while no writer holds the
\* lock; Gpio::new(*guard) copies the pin number
GpioRead(t) ==
    /\ gpc[t] = "read"
    /\ rwWriters = {}
    /\ rwReaders' = rwReaders \cup {t}
    /\ gpin' = [gpin EXCEPT ![t] = pin]
    /\ gpc' = [gpc EXCEPT ![t] = "into_output"]
    /\ UNCHANGED <<pin, rwWriters, gop, greq, gres, gcount, outputs, high, lastOk, overlapped,
                 stdinVars, dspVars, inodeVars>>

\* write_at, line 163: .into_output() configures the pin, then the read
\* guard is dropped at the end of the statement
GpioIntoOutput(t) ==
    /\ gpc[t] = "into_output"
    /\ outputs' = outputs \cup {gpin[t]}
    /\ rwReaders' = rwReaders \ {t}
    /\ gpc' = [gpc EXCEPT ![t] = "set"]
    /\ UNCHANGED <<pin, rwWriters, gop, greq, gpin, gres, gcount, high, lastOk, overlapped,
                 stdinVars, dspVars, inodeVars>>

\* a write_at that drives the pin low (clear() in place of set())
GpioSetClear(t) ==
    /\ gpc[t] = "set"
    /\ high' = high \ {gpin[t]}
    /\ gres' = [gres EXCEPT ![t] = "Ok"]
    /\ gcount' = [gcount EXCEPT ![t] = 0]
    /\ gpc' = [gpc EXCEPT ![t] = "done"]
    /\ UNCHANGED <<pin, rwReaders, rwWriters, gop, greq, gpin, outputs, lastOk, overlapped,
                 stdinVars, dspVars, inodeVars>>

\* write_at, lines 164-165: my_gpio.set(); Ok(0)
GpioSet(t) ==
    /\ gpc[t] = "set"
    /\ high' = high \cup {gpin[t]}
    /\ gres' = [gres EXCEPT ![t] = "Ok"]
    /\ gcount' = [gcount EXCEPT ![t] = 0]
    /\ gpc' = [gpc EXCEPT ![t] = "done"]
    /\ UNCHANGED <<pin, rwReaders, rwWriters, gop, greq, gpin, outputs, lastOk, overlapped,
                 stdinVars, dspVars, inodeVars>>

\* an ioctl whose bound is off by one: pin 53 is refused
GpioIoctlCheckGe(t, request) ==
    /\ gpc[t] \in {"idle", "done"}
    /\ gop' = [gop EXCEPT ![t] = "ioctl"]
    /\ greq' = [greq EXCEPT ![t] = request]
    /\ gpin' = [gpin EXCEPT ![t] = None]
    /\ gcount' = [gcount EXCEPT ![t] = NoCount]
    /\ overlapped' = [overlapped EXCEPT ![t] = FALSE]
    /\ IF request >= 53
       THEN /\ gres' = [gres EXCEPT ![t] = "NotValidParam"]
            /\ gpc' = [gpc EXCEPT ![t] = "done"]
       ELSE /\ gres' = [gres EXCEPT ![t] = "none"]
            /\ gpc' = [gpc EXCEPT ![t] = "write"]
    /\ UNCHANGED <<pin, rwReaders, rwWriters, outputs, high, lastOk,
                 stdinVars, dspVars, inodeVars>>

\* an ioctl that validates nothing and stores `request as u8`
GpioIoctlNoCheck(t, request) ==
    /\ gpc[t] \in {"idle", "done"}
    /\ gop' = [gop EXCEPT ![t] = "ioctl"]
    /\ greq' = [greq EXCEPT ![t] = request]
    /\ gpin' = [gpin EXCEPT ![t] = None]
    /\ gcount' = [gcount EXCEPT ![t] = NoCount]
    /\ overlapped' = [overlapped EXCEPT ![t] = FALSE]
    /\ gres' = [gres EXCEPT ![t] = "none"]
    /\ gpc' = [gpc EXCEPT ![t] = "write"]
    /\ UNCHANGED <<pin, rwReaders, rwWriters, outputs, high, lastOk,
                 stdinVars, dspVars, inodeVars>>

\* ioctl, lines 167-171: a thread calls ioctl(request, data); request > 53
\* returns Err(NotValidParam) at once
GpioIoctlCheck(t, request) ==
    /\ gpc[t] \in {"idle", "done"}
    /\ gop' = [gop EXCEPT ![t] = "ioctl"]
    /\ greq' = [greq EXCEPT ![t] = request]
    /\ gpin' = [gpin EXCEPT ![t] = None]
    /\ gcount' = [gcount EXCEPT ![t] = NoCount]
    /\ overlapped' = [overlapped EXCEPT ![t] = FALSE]
    /\ IF request > 53
       THEN /\ gres' = [gres EXCEPT ![t] = "NotValidParam"]
            /\ gpc' = [gpc EXCEPT ![t] = "done"]
       ELSE /\ gres' = [gres EXCEPT ![t] = "none"]
            /\ gpc' = [gpc EXCEPT ![t] = "write"]
    /\ UNCHANGED <<pin, rwReaders, rwWriters, outputs, high, lastOk,
                 stdinVars, dspVars, inodeVars>>

\* an ioctl whose write lock does not wait for the readers to leave
GpioWriteIgnoresReaders(t) ==
    /\ gpc[t] = "write"
    /\ rwWriters = {}
    /\ rwWriters' = {t}
    /\ gpc' = [gpc EXCEPT ![t] = "assign"]
    /\ UNCHANGED <<pin, rwReaders, gop, greq, gpin, gres, gcount, outputs, high, lastOk, overlapped,
                 stdinVars, dspVars, inodeVars>>

\* ioctl, line 172: self.pin.write() is granted while nobody holds the lock
GpioWrite(t) ==
    /\ gpc[t] = "write"
    /\ rwReaders = {}
    /\ rwWriters = {}
    /\ rwWriters' = {t}
    /\ gpc' = [gpc EXCEPT ![t] = "assign"]
    /\ UNCHANGED <<pin, rwReaders, gop, greq, gpin, gres, gcount, outputs, high, lastOk, overlapped,
                 stdinVars, dspVars, inodeVars>>

\* ioctl, lines 173-175: *pin = request as u8; Ok(()), the guard is dropped
GpioAssign(t) ==
    /\ gpc[t] = "assign"
    /\ pin' = RequestAsU8(greq[t])
    /\ lastOk' = greq[t]
    /\ overlapped' = [u \in GpioThreads |->
                        overlapped[u] \/ gpc[u] \in {"read", "into_output", "set"}]
    /\ rwWriters' = rwWriters \ {t}
    /\ gres' = [gres EXCEPT ![t] = "Ok"]
    /\ gpc' = [gpc EXCEPT ![t] = "done"]
    /\ UNCHANGED <<rwReaders, gop, greq, gpin, gcount, outputs, high,
                 stdinVars, dspVars, inodeVars>>

NextGpio ==
    \/ \E t \in GpioThreads, offset \in Offsets, data \in Bufs :
           GpioCallWriteAt(t, offset, data)
    \/ \E t \in GpioThreads : GpioRead(t)
    \/ \E t \in GpioThreads : GpioIntoOutput(t)
    \/ \E t \in GpioThreads : GpioSet(t)
    \/ \E t \in GpioThreads, request \in Requests : GpioIoctlCheck(t, request)
    \/ \E t \in GpioThreads : GpioWrite(t)
    \/ \E t \in GpioThreads : GpioAssign(t)

\* ---- Dsp ------------------------------------------------------------------

NoPlayback == [data |-> <<>>, len |-> None]

InitDsp ==
    /\ dspbuf = <<>>
    /\ dpc = [t \in DspThreads |-> "idle"]
    /\ dop = [t \in DspThreads |-> "none"]
    /\ dres = [t \in DspThreads |-> "none"]
    /\ dcount = [t \in DspThreads |-> NoCount]
    /\ dlen = [t \in DspThreads |-> None]
    /\ playing = [t \in DspThreads |-> FALSE]
    /\ handed = [t \in DspThreads |-> NoPlayback]
    /\ dspLog = <<>>
    /\ dspLock = {}
    /\ dcalls = 0

\* every call starts from a thread that is not inside one, with fresh locals
DspEnter(t, op) ==
    /\ dpc[t] \in {"idle", "done"}
    /\ dcalls < MaxDspOps
    /\ dcalls' = dcalls + 1
    /\ dop' = [dop EXCEPT ![t] = op]

\* self.buf.lock() in a statement: spin::Mutex is taken when no thread holds
\* it, and the guard, a temporary, is dropped at the end of the statement
DspLockStatement(t) ==
    /\ dspLock = {}
    /\ dspLock' = {}

\* a write that stores the bytes at `offset` instead of appending them
VecWriteAtOffset(v, offset, data) ==
    LET at == IF offset < Len(v) THEN offset ELSE Len(v)
    IN  SubSeq(v, 1, at) \o data \o SubSeq(v, at + Len(data) + 1, Len(v))

\* write_at, lines 130-131: Vec::from(buf) appended to self.buf
VecAppend(v, offset, data) == v \o data

\* a reset that keeps the first byte (truncate(1))
VecTruncate1(v) == IF Len(v) > 1 THEN SubSeq(v, 1, 1) ELSE v

\* ioctl, line 137: Vec::clear
VecClear(v) == <<>>

\* write_at, lines 129-133: append under the lock, Ok(buf.len())
DspWriteAt(t, offset, data) ==
    /\ DspEnter(t, "write_at")
    /\ DspLockStatement(t)
    /\ dspbuf' = VecAppend(dspbuf, offset, data)
    /\ dcount' = [dcount EXCEPT ![t] = Len(data)]
    /\ dres' = [dres EXCEPT ![t] = "Ok"]
    /\ dpc' = [dpc EXCEPT ![t] = "done"]
    /\ dspLog' = Append(dspLog, [op |-> "write_at", data |-> data, ret |-> Len(data)])
    /\ UNCHANGED <<dlen, playing, handed,
                 stdinVars, gpioVars, inodeVars>>

\* ioctl, lines 135-137 and 151: request == 0 clears the buffer, Ok(())
DspReset(t, request) ==
    /\ request = 0
    /\ DspEnter(t, "reset")
    /\ DspLockStatement(t)
    /\ dspbuf' = VecClear(dspbuf)
    /\ dcount' = [dcount EXCEPT ![t] = NoCount]
    /\ dres' = [dres EXCEPT ![t] = "Ok"]
    /\ dpc' = [dpc EXCEPT ![t] = "done"]
    /\ dspLog' = Append(dspLog, [op |-> "reset", data |-> <<>>, ret |-> None])
    /\ UNCHANGED <<dlen, playing, handed,
                 stdinVars, gpioVars, inodeVars>>

\* an ioctl whose first test is `request != 1`: every unknown request clears
DspOtherClears(t, request) ==
    /\ request \notin {0, 1}
    /\ DspEnter(t, "other")
    /\ DspLockStatement(t)
    /\ dspbuf' = VecClear(dspbuf)
    /\ dcount' = [dcount EXCEPT ![t] = NoCount]
    /\ dres' = [dres EXCEPT ![t] = "Ok"]
    /\ dpc' = [dpc EXCEPT ![t] = "done"]
    /\ dspLog' = Append(dspLog, [op |-> "other", data |-> <<>>, ret |-> None])
    /\ UNCHANGED <<dlen, playing, handed,
                 stdinVars, gpioVars, inodeVars>>

\* ioctl, lines 135, 138 and 151: neither 0 nor 1, Ok(()) and nothing else
DspOther(t, request) ==
    /\ request \notin {0, 1}
    /\ DspEnter(t, "other")
    /\ dcount' = [dcount EXCEPT ![t] = NoCount]
    /\ dres' = [dres EXCEPT ![t] = "Ok"]
    /\ dpc' = [dpc EXCEPT ![t] = "done"]
    /\ dspLog' = Append(dspLog, [op |-> "other", data |-> <<>>, ret |-> None])
    /\ UNCHANGED <<dspbuf, dlen, playing, handed, dspLock,
                 stdinVars, gpioVars, inodeVars>>

\* ioctl, lines 138-142: request == 1; the length is read under the lock for
\* the message, the sound device is created and initialised
DspPlayPrint(t, request) ==
    /\ request = 1
    /\ DspEnter(t, "play")
    /\ DspLockStatement(t)
    /\ dcount' = [dcount EXCEPT ![t] = NoCount]
    /\ dres' = [dres EXCEPT ![t] = "none"]
    /\ dlen' = [dlen EXCEPT ![t] = None]
    /\ playing' = [playing EXCEPT ![t] = FALSE]
    /\ handed' = [handed EXCEPT ![t] = NoPlayback]
    /\ dpc' = [dpc EXCEPT ![t] = "play_len"]
    /\ UNCHANGED <<dspbuf, dspLog,
                 stdinVars, gpioVars, inodeVars>>

\* a play that binds the guard to a local and so keeps the lock after line 143
DspPlayLenKeepsGuard(t) ==
    /\ dpc[t] = "play_len"
    /\ dspLock = {}
    /\ dspLock' = {t}
    /\ dlen' = [dlen EXCEPT ![t] = Len(dspbuf)]
    /\ dpc' = [dpc EXCEPT ![t] = "play_start"]
    /\ UNCHANGED <<dspbuf, dop, dres, dcount, playing, handed, dspLog, dcalls,
                 stdinVars, gpioVars, inodeVars>>

\* ioctl, line 143: let len = self.buf.lock().len() / 1
DspPlayLen(t) ==
    /\ dpc[t] = "play_len"
    /\ DspLockStatement(t)
    /\ dlen' = [dlen EXCEPT ![t] = Len(dspbuf)]
    /\ dpc' = [dpc EXCEPT ![t] = "play_start"]
    /\ UNCHANGED <<dspbuf, dop, dres, dcount, playing, handed, dspLog, dcalls,
                 stdinVars, gpioVars, inodeVars>>

\* ioctl, line 144: sound_device.Playback(self.buf.lock().as_ptr(), len, 1, 8)
DspPlayStart(t) ==
    /\ dpc[t] = "play_start"
    /\ DspLockStatement(t)
    /\ handed' = [handed EXCEPT ![t] = [data |-> dspbuf, len |-> dlen[t]]]
    /\ playing' = [playing EXCEPT ![t] = TRUE]
    /\ dpc' = [dpc EXCEPT ![t] = "play_poll"]
    /\ dspLog' = Append(dspLog, [op |-> "play", data |-> dspbuf, ret |-> dlen[t]])
    /\ UNCHANGED <<dspbuf, dop, dres, dcount, dlen, dcalls,
                 stdinVars, gpioVars, inodeVars>>

\* the backend finishes playing: PlaybackActive() turns false
DspPlaybackEnds(t) ==
    /\ playing[t]
    /\ playing' = [playing EXCEPT ![t] = FALSE]
    /\ UNCHANGED <<dspbuf, dpc, dop, dres, dcount, dlen, handed, dspLog, dspLock,
                 dcalls,
                 stdinVars, gpioVars, inodeVars>>

\* a play that starts the backend and returns without polling it
DspPlayReturnNoPoll(t) ==
    /\ dpc[t] = "play_poll"
    /\ dres' = [dres EXCEPT ![t] = "Ok"]
    /\ dpc' = [dpc EXCEPT ![t] = "done"]
    /\ UNCHANGED <<dspbuf, dop, dcount, dlen, playing, handed, dspLog, dspLock,
                 dcalls,
                 stdinVars, gpioVars, inodeVars>>

\* a play that empties the buffer once the backend has finished
DspPlayReturnClears(t) ==
    /\ dpc[t] = "play_poll"
    /\ ~playing[t]
    /\ DspLockStatement(t)
    /\ dspbuf' = VecClear(dspbuf)
    /\ dres' = [dres EXCEPT ![t] = "Ok"]
    /\ dpc' = [dpc EXCEPT ![t] = "done"]
    /\ UNCHANGED <<dop, dcount, dlen, playing, handed, dspLog, dcalls,
                 stdinVars, gpioVars, inodeVars>>

\* ioctl, lines 145-151: the poll loop is left once PlaybackActive() is
\* false; Ok(())
DspPlayReturn(t) ==
    /\ dpc[t] = "play_poll"
    /\ ~playing[t]
    /\ dres' = [dres EXCEPT ![t] = "Ok"]
    /\ dpc' = [dpc EXCEPT ![t] = "done"]
    /\ UNCHANGED <<dspbuf, dop, dcount, dlen, playing, handed, dspLog, dspLock,
                 dcalls,
                 stdinVars, gpioVars, inodeVars>>

NextDsp ==
    \/ \E t \in DspThreads, offset \in Offsets, data \in Bufs :
           DspWriteAt(t, offset, data)
    \/ \E t \in DspThreads, request \in DspRequests : DspReset(t, request)
    \/ \E t \in DspThreads, request \in DspRequests : DspOther(t, request)
    \/ \E t \in DspThreads, request \in DspRequests : DspPlayPrint(t, request)
    \/ \E t \in DspThreads : DspPlayLen(t)
    \/ \E t \in DspThreads : DspPlayStart(t)
    \/ \E t \in DspThreads : DspPlaybackEnds(t)
    \/ \E t \in DspThreads : DspPlayReturn(t)

\* ---- methods without device logic ------------------------------------------

\* the four device nodes of lines 71-76
Nodes == {"STDIN", "STDOUT", "GPIO", "DSP"}

\* the methods impl_inode! defines, lines 81-93 (as_any_ref returns self)
InodeOps == {"metadata", "sync_all", "sync_data", "resize", "create", "unlink",
             "link", "move_", "find", "get_entry", "fs", "chmod"}

NoCall == [node |-> "none", op |-> "none", res |-> "none"]

InitInode == fsres = NoCall

\* an impl_inode! in which resize is accepted
ImplInodeResizeOk(op) ==
    IF op \in {"metadata"} THEN "NotSupported"
    ELSE IF op \in {"sync_all", "sync_data", "chmod", "resize"} THEN "Ok"
    ELSE IF op = "fs" THEN "panic"
    ELSE "NotDir"

\* an impl_inode! in which sync_all is refused like metadata
ImplInodeSyncRefused(op) ==
    IF op \in {"metadata", "resize", "sync_all"} THEN "NotSupported"
    ELSE IF op \in {"sync_data", "chmod"} THEN "Ok"
    ELSE IF op = "fs" THEN "panic"
    ELSE "NotDir"

\* impl_inode!, lines 81-93: what each method returns; "panic" is
\* unimplemented!(), which returns nothing
ImplInode(op) ==
    IF op \in {"metadata", "resize"} THEN "NotSupported"
    ELSE IF op \in {"sync_all", "sync_data", "chmod"} THEN "Ok"
    ELSE IF op = "fs" THEN "panic"
    ELSE "NotDir"

\* a call of a method of impl_inode! on a node: the body is a constant
ImplInodeCall(node, op) ==
    /\ fsres' = [node |-> node, op |-> op, res |-> ImplInode(op)]
    /\ UNCHANGED <<stdinVars, gpioVars, dspVars>>

\* a console input that takes written bytes into its queue
StdinWriteAtQueues(offset, data) ==
    /\ fsres' = [node |-> "STDIN", op |-> "write_at", res |-> "Ok"]
    /\ buf' = buf \o data
    /\ UNCHANGED <<waitq, cpc, cop, ret, ubuf, rcount, npop, ppc,
                   pushed, popped, signals>>
    /\ UNCHANGED <<gpioVars, dspVars>>

\* Stdin::write_at, lines 102-104: unimplemented!()
StdinWriteAt(offset, data) ==
    /\ fsres' = [node |-> "STDIN", op |-> "write_at", res |-> "panic"]
    /\ UNCHANGED <<stdinVars, gpioVars, dspVars>>

\* Stdout::read_at, lines 111-113: unimplemented!()
StdoutReadAt(offset, len) ==
    /\ fsres' = [node |-> "STDOUT", op |-> "read_at", res |-> "panic"]
    /\ UNCHANGED <<stdinVars, gpioVars, dspVars>>

\* Dsp::read_at, lines 126-128: unimplemented!()
DspReadAt(offset, len) ==
    /\ fsres' = [node |-> "DSP", op |-> "read_at", res |-> "panic"]
    /\ UNCHANGED <<stdinVars, gpioVars, dspVars>>

\* GPIOOutput::read_at, lines 158-160: unimplemented!()
GpioReadAt(offset, len) ==
    /\ fsres' = [node |-> "GPIO", op |-> "read_at", res |-> "panic"]
    /\ UNCHANGED <<stdinVars, gpioVars, dspVars>>

\* the calls above, made while the queue is filled with 'h', bytes are
\* written to the audio sink and the pin is selected, each by the first
\* thread of its device
NextInode ==
    \/ \E node \in Nodes, op \in InodeOps : ImplInodeCall(node, op)
    \/ \E offset \in Offsets, data \in Bufs : StdinWriteAt(offset, data)
    \/ \E offset \in Offsets, len \in BufLens : StdoutReadAt(offset, len)
    \/ \E offset \in Offsets, len \in BufLens : DspReadAt(offset, len)
    \/ \E offset \in Offsets, len \in BufLens : GpioReadAt(offset, len)
    \/ \E p \in Producers : Push(p, 104)
    \/ \E p \in Producers : PushNotify(p)
    \/ DspWriteAt(1, 0, <<7>>)
    \/ GpioIoctlCheck(1, 12)
    \/ GpioWrite(1)
    \/ GpioAssign(1)

Init == InitStdin /\ InitGpio /\ InitDsp /\ InitInode

SpecStdin == Init /\ [][NextStdin]_vars

SpecReadAt == Init /\ [][NextReadAt]_vars

SpecGpio == Init /\ [][NextGpio]_vars

SpecDsp == Init /\ [][NextDsp]_vars

SpecInode == Init /\ [][NextInode]_vars

Next == NextStdin \/ NextReadAt \/ NextGpio \/ NextDsp \/ NextInode

Spec == Init /\ [][Next]_vars

\* the scheduler runs every runnable thread: a consumer that can take a step
\* of pop, and a producer that has still to notify, eventually do so
FairSpecStdin ==
    /\ Init
    /\ [][NextStdin]_vars
    /\ \A c \in Consumers :
         WF_vars(PopNone(c) \/ PopWait(c) \/ PopSome(c))
    /\ \A p \in Producers : WF_vars(PushNotify(p))

\* the calls that take the buffer's lock: writes of one byte, resets and
\* plays
NextDspPlay ==
    \/ \E t \in DspThreads, offset \in Offsets : DspWriteAt(t, offset, <<7>>)
    \/ \E t \in DspThreads : DspReset(t, 0)
    \/ \E t \in DspThreads : DspPlayPrint(t, 1)
    \/ \E t \in DspThreads : DspPlayLen(t)
    \/ \E t \in DspThreads : DspPlayStart(t)
    \/ \E t \in DspThreads : DspPlaybackEnds(t)
    \/ \E t \in DspThreads : DspPlayReturn(t)

\* the scheduler runs every thread that is inside a play call, and the
\* backend's playback comes to an end
FairSpecDsp ==
    /\ Init
    /\ [][NextDspPlay]_vars
    /\ \A t \in DspThreads :
         /\ WF_vars(DspPlayLen(t) \/ DspPlayStart(t) \/ DspPlayReturn(t))
         /\ WF_vars(DspPlaybackEnds(t))

TypeStdin ==
    /\ cpc \in [StdinThreads -> {"idle", "loop", "none", "waiting", "done", "panicked"}]
    /\ cop \in [StdinThreads -> {"pop", "read_at"}]
    /\ ppc \in [Producers -> {"idle", "notify"}]
    /\ ret \in [StdinThreads -> Chars \cup {None}]
    /\ \A c \in StdinThreads : cpc[c] = "waiting" <=> \E i \in 1..Len(waitq) : waitq[i] = c

SeqRange(q) == {q[i] : i \in 1..Len(q)}

\* ---- C1 -------------------------------------------------------------------
\* C1: the characters removed by pops, in removal order, followed by what is
\* still queued, are exactly the pushed characters in push order: the pops
\* return a prefix of the pushes, nothing reordered, duplicated or lost.
FifoOrder == popped \o buf = pushed

FifoOrderWitness ==
    /\ Len(popped) >= 2
    /\ popped[1] # popped[2]
    /\ \E c, d \in Consumers : c # d /\ cpc[c] = "done" /\ cpc[d] = "done"
                               /\ ret[c] = popped[1] /\ ret[d] = popped[2]

\* ---- C2 -------------------------------------------------------------------
\* C2: a pop returns only in a step that removes exactly the head of a
\* non-empty queue and hands that character back; a pop that finds the queue
\* empty does not return but suspends on the Condvar, and a suspended pop can
\* only go back to the top of the loop.
PopNeverReturnsEmptyStep ==
    \A c \in StdinThreads :
      /\ (cpc[c] # cpc'[c] /\ cpc'[c] \in {"done", "panicked"}) =>
            /\ cpc[c] = "loop"
            /\ buf # <<>>
            /\ buf' = Tail(buf)
            /\ popped' = Append(popped, Head(buf))
            /\ ret'[c] = Head(buf)
            /\ npop'[c] = 1
      /\ (cpc[c] = "loop" /\ buf = <<>> /\ cpc'[c] # "loop") =>
            /\ cpc'[c] = "none"
            /\ buf' = buf
            /\ popped' = popped
      /\ (cpc[c] = "none" /\ cpc'[c] # "none") =>
            /\ cpc'[c] = "waiting"
            /\ c \in SeqRange(waitq')
            /\ buf' = buf
      /\ (cpc[c] = "waiting" /\ cpc'[c] # "waiting") => cpc'[c] = "loop"

PopNeverReturnsEmpty == [][PopNeverReturnsEmptyStep]_vars

\* one consumer has returned the last character removed while another,
\* having found the queue empty after a push was signalled, is suspended
PopNeverReturnsEmptyWitness ==
    \E c, d \in Consumers :
      /\ c # d
      /\ cpc[c] = "done" /\ cop[c] = "pop" /\ ret[c] = popped[Len(popped)]
      /\ cpc[d] = "waiting"
      /\ buf = <<>>
      /\ signals >= 1

\* ---- C3 -------------------------------------------------------------------
\* C3: under fair scheduling a consumer never stays suspended forever while
\* the queue holds a character (no lost wakeup).
NoLostWakeup ==
    \A c \in Consumers : []<>(cpc[c] # "waiting" \/ buf = <<>>)

\* ---- C4 -------------------------------------------------------------------
\* C4: every push makes exactly one notify_one call, and that call ends the
\* wait of exactly one suspended pop when there is one (none otherwise): all
\* other suspended pops stay suspended.
SignalPerPush ==
    signals + Cardinality({p \in Producers : ppc[p] = "notify"}) = Len(pushed)

WakeOneStep ==
    /\ \A p \in Producers :
         /\ (ppc[p] = "idle" /\ ppc'[p] = "notify") =>
               /\ Len(pushed') = Len(pushed) + 1
               /\ signals' = signals
               /\ waitq' = waitq
               /\ cpc' = cpc
         /\ (ppc[p] = "notify" /\ ppc'[p] = "idle") =>
               /\ signals' = signals + 1
               /\ pushed' = pushed
               /\ IF waitq = <<>>
                  THEN waitq' = waitq /\ cpc' = cpc
                  ELSE \E w \in SeqRange(waitq) :
                         /\ cpc[w] = "waiting" /\ cpc'[w] = "loop"
                         /\ \A o \in StdinThreads \ {w} : cpc'[o] = cpc[o]
                         /\ SeqRange(waitq') = SeqRange(waitq) \ {w}
                         /\ Len(waitq') = Len(waitq) - 1
    /\ (ppc' = ppc) => signals' = signals

WakeOne == [](SignalPerPush) /\ [][WakeOneStep]_vars

\* after the single push so far and its signal, one consumer is back at the
\* top of the loop and another is still suspended
WakeOneWitness ==
    \E c, d \in Consumers :
      /\ c # d
      /\ Len(pushed) = 1 /\ signals = 1 /\ buf = pushed
      /\ cpc[c] = "loop"
      /\ cpc[d] = "waiting" /\ waitq = <<d>>

\* ---- C5 -------------------------------------------------------------------
\* C5: a read_at that has returned on a buffer of length >= 1 has made exactly
\* one pop, stored the low byte of that character at position 0, left every
\* other position as the caller passed it, and reported 1 byte.
ReadAtOneByte ==
    \A c \in Readers :
      (cop[c] = "read_at" /\ cpc[c] = "done") =>
         /\ Len(ubuf[c]) >= 1
         /\ npop[c] = 1
         /\ ret[c] \in Chars
         /\ ubuf[c][1] = ret[c] % 256
         /\ \A i \in 2..Len(ubuf[c]) : ubuf[c][i] = FreshBuf(Len(ubuf[c]))[i]
         /\ rcount[c] = 1

ReadAtOneByteWitness ==
    \E c \in Readers :
      /\ cop[c] = "read_at" /\ cpc[c] = "done"
      /\ Len(ubuf[c]) >= 2
      /\ ret[c] = 353 /\ ubuf[c][1] = 97

TypeGpio ==
    /\ gpc \in [GpioThreads -> {"idle", "read", "into_output", "set", "write", "assign", "done"}]
    /\ pin \in 0..255
    /\ Cardinality(rwWriters) <= 1
    /\ rwWriters = {} \/ rwReaders = {}

\* ---- C6 -------------------------------------------------------------------
\* C6: an ioctl on the GPIO node with request > 53 returns NotValidParam in a
\* step that leaves the Pin Selector as it was, a request in 0..53 returns
\* Ok, and the selector only ever changes to the request of an ioctl in 0..53.
GpioBoundsResult ==
    \A t \in GpioThreads :
      (gop[t] = "ioctl" /\ gpc[t] = "done") =>
         /\ greq[t] > 53 => gres[t] = "NotValidParam"
         /\ greq[t] <= 53 => gres[t] = "Ok"

GpioBoundsStep ==
    /\ \A t \in GpioThreads :
         (gpc[t] # gpc'[t] /\ gres'[t] = "NotValidParam") =>
             /\ greq'[t] > 53
             /\ pin' = pin
    /\ pin' # pin =>
         \E t \in GpioThreads :
             /\ gpc[t] = "assign" /\ gpc'[t] = "done"
             /\ greq[t] <= 53
             /\ pin' = greq[t]

GpioBounds == [](GpioBoundsResult) /\ [][GpioBoundsStep]_vars

\* ioctl(54) was refused after an ioctl(53) had succeeded: the selector is
\* still 53
GpioBoundsWitness ==
    \E t, u \in GpioThreads :
      /\ gop[t] = "ioctl" /\ gpc[t] = "done" /\ greq[t] = 54
      /\ gres[t] = "NotValidParam"
      /\ gop[u] = "ioctl" /\ gpc[u] = "done" /\ greq[u] = 53 /\ gres[u] = "Ok"
      /\ pin = 53

\* ---- C7 -------------------------------------------------------------------
\* C7: the Pin Selector is a valid pin index, 0..53, in every reachable state.
PinValid == pin \in 0..53

PinValidWitness ==
    \E t \in GpioThreads :
      /\ gop[t] = "ioctl" /\ gpc[t] = "done"
      /\ greq[t] = 268 /\ gres[t] = "NotValidParam"
      /\ pin = 53
      /\ high # {}

\* ---- C8 -------------------------------------------------------------------
\* C8: write_at on the GPIO node drives high exactly the pin it read from the
\* selector, which is the request of the latest successful ioctl when it is
\* read (0 if there was none) and still is when the pin is driven unless an
\* ioctl completed during the call; it returns Ok(0) and no step of write_at
\* changes the selector.
GpioWriteStep ==
    \A t \in GpioThreads :
      /\ (gpc[t] = "read" /\ gpc'[t] # "read") =>
            /\ gpin'[t] = pin
            /\ pin = lastOk
            /\ pin' = pin
            /\ high' = high
      /\ (gpc[t] = "into_output" /\ gpc'[t] # "into_output") =>
            /\ outputs' = outputs \cup {gpin[t]}
            /\ pin' = pin
            /\ high' = high
      /\ (gpc[t] = "set" /\ gpc'[t] # "set") =>
            /\ high' = high \cup {gpin[t]}
            /\ gpin[t] \in outputs
            /\ ~overlapped[t] => gpin[t] = lastOk
            /\ gres'[t] = "Ok"
            /\ gcount'[t] = 0
            /\ pin' = pin

GpioWriteDrivesSelected == [](pin = lastOk) /\ [][GpioWriteStep]_vars

\* control(12) succeeded, then a write_at drove pin 12 and returned 0
GpioWriteDrivesSelectedWitness ==
    \E t, u \in GpioThreads :
      /\ gop[t] = "write_at" /\ gpc[t] = "done"
      /\ gres[t] = "Ok" /\ gcount[t] = 0
      /\ gpin[t] = 12 /\ 12 \in high /\ 0 \notin high
      /\ ~overlapped[t]
      /\ gop[u] = "ioctl" /\ gpc[u] = "done" /\ greq[u] = 12
      /\ pin = 12

TypeDsp ==
    /\ dpc \in [DspThreads -> {"idle", "play_len", "play_start", "play_poll", "done"}]
    /\ dcalls \in 0..MaxDspOps
    /\ \A t \in DspThreads : playing[t] => dpc[t] = "play_poll"

\* ---- C9 -------------------------------------------------------------------
\* the buffer obtained by replaying the calls in order: a write appends its
\* bytes, a reset empties, play and unknown requests change nothing
RECURSIVE Replay(_)
Replay(log) ==
    IF log = <<>> THEN <<>>
    ELSE LET e == log[Len(log)]
             before == Replay(SubSeq(log, 1, Len(log) - 1))
         IN  IF e.op = "write_at" THEN before \o e.data
             ELSE IF e.op = "reset" THEN <<>>
             ELSE before

\* the sum of the byte counts returned by the writes since the last reset
RECURSIVE ReturnedSinceReset(_)
ReturnedSinceReset(log) ==
    IF log = <<>> THEN 0
    ELSE LET e == log[Len(log)]
             before == ReturnedSinceReset(SubSeq(log, 1, Len(log) - 1))
         IN  IF e.op = "write_at" THEN before + e.ret
             ELSE IF e.op = "reset" THEN 0
             ELSE before

\* C9: the audio buffer is the concatenation, in call order, of the buffers
\* written since the last reset, whatever the offsets; its length is the sum
\* of the counts those writes returned, and every write returned the length
\* of the buffer it was given.
AudioAccumulates ==
    /\ dspbuf = Replay(dspLog)
    /\ Len(dspbuf) = ReturnedSinceReset(dspLog)
    /\ \A i \in 1..Len(dspLog) :
         dspLog[i].op = "write_at" => dspLog[i].ret = Len(dspLog[i].data)
    /\ \A t \in DspThreads :
         (dop[t] = "write_at" /\ dpc[t] = "done") =>
            \E i \in 1..Len(dspLog) :
               dspLog[i].op = "write_at" /\ dspLog[i].ret = dcount[t]

\* a write, a reset, then the writes [8,9] and [7]: the buffer is 8,9,7
AudioAccumulatesWitness ==
    \E i \in 1..Len(dspLog) :
      /\ i + 3 = Len(dspLog)
      /\ dspLog[i].op = "write_at" /\ dspLog[i].data # <<>>
      /\ dspLog[i + 1].op = "reset"
      /\ dspLog[i + 2].op = "write_at" /\ dspLog[i + 2].data = <<8, 9>>
      /\ dspLog[i + 3].op = "write_at" /\ dspLog[i + 3].data = <<7>>
      /\ dspbuf = <<8, 9, 7>>

\* ---- C10 ------------------------------------------------------------------
\* C10: a step of ioctl(0) leaves the audio buffer empty whatever it held,
\* returns Ok and touches nothing else of the device, so that a second RESET
\* right after a first leaves the state the first one produced.
IsResetStep ==
    /\ Len(dspLog') = Len(dspLog) + 1
    /\ dspLog'[Len(dspLog')].op = "reset"

AudioResetStep ==
    IsResetStep =>
       /\ dspbuf' = <<>>
       /\ \E t \in DspThreads :
            /\ dpc[t] # "play_poll" /\ dpc'[t] = "done"
            /\ dop'[t] = "reset" /\ dres'[t] = "Ok"
       /\ UNCHANGED <<playing, handed, dlen>>
       /\ (dspLog # <<>> /\ dspLog[Len(dspLog)].op = "reset") => dspbuf' = dspbuf

AudioResetEmpties == [][AudioResetStep]_vars

\* bytes were written, then RESET was applied twice in a row
AudioResetEmptiesWitness ==
    \E i \in 1..Len(dspLog) :
      /\ i + 2 = Len(dspLog)
      /\ dspLog[i].op = "write_at" /\ dspLog[i].data = <<8, 9>>
      /\ dspLog[i + 1].op = "reset"
      /\ dspLog[i + 2].op = "reset"
      /\ dspbuf = <<>>
      /\ \A t \in DspThreads : dpc[t] = "done" /\ dres[t] = "Ok"

\* ---- C11 ------------------------------------------------------------------
\* the step of an ioctl whose request is neither 0 nor 1
IsOtherStep ==
    /\ Len(dspLog') = Len(dspLog) + 1
    /\ dspLog'[Len(dspLog')].op = "other"

DspOtherStep ==
    IsOtherStep =>
        /\ dspbuf' = dspbuf
        /\ playing' = playing
        /\ handed' = handed
        /\ dspLock' = dspLock
        /\ \E t \in DspThreads :
              /\ dpc[t] \in {"idle", "done"}
              /\ dpc'[t] = "done" /\ dop'[t] = "other" /\ dres'[t] = "Ok"
              /\ \A u \in DspThreads \ {t} : dpc'[u] = dpc[u] /\ dres'[u] = dres[u]

\* C11: an audio control whose request is neither 0 (reset) nor 1 (play)
\* returns Ok in one step that leaves the audio buffer as it was, starts no
\* playback and hands nothing to the backend; a thread whose last call was
\* such a control has returned Ok and is not playing
DspOtherNoOp ==
    /\ [][DspOtherStep]_vars
    /\ [](\A t \in DspThreads :
            dop[t] = "other" =>
                dpc[t] = "done" /\ dres[t] = "Ok" /\ ~playing[t])

\* an unknown control returned after two writes whose bytes are still there
DspOtherNoOpWitness ==
    /\ Len(dspLog) = 3
    /\ dspLog[1].op = "write_at" /\ dspLog[1].data = <<8, 9>>
    /\ dspLog[2].op = "write_at" /\ dspLog[2].data = <<7>>
    /\ dspLog[3].op = "other"
    /\ dspbuf = <<8, 9, 7>>
    /\ \E t \in DspThreads : dop[t] = "other" /\ dres[t] = "Ok"

\* ---- C12 ------------------------------------------------------------------
\* the steps of one play call: the length is the buffer's when line 143 reads
\* it, Playback gets the buffer and that length and turns the backend active,
\* and the call returns only from the poll loop with the backend inactive
DspPlayStep ==
    \A t \in DspThreads :
      /\ (dpc[t] = "play_len" /\ dpc'[t] # "play_len") =>
            dpc'[t] = "play_start" /\ dlen'[t] = Len(dspbuf)
      /\ (dpc[t] = "play_start" /\ dpc'[t] # "play_start") =>
            /\ dpc'[t] = "play_poll"
            /\ handed'[t] = [data |-> dspbuf, len |-> dlen[t]]
            /\ playing'[t]
      /\ (dpc[t] = "play_poll" /\ dpc'[t] # "play_poll") =>
            /\ dpc'[t] = "done" /\ dres'[t] = "Ok"
            /\ ~playing[t] /\ ~playing'[t]

\* C12: PLAY is synchronous: it hands the backend the audio buffer and the
\* length it read from it, which starts playback, and it has not returned in
\* any state where the backend of that call still reports playback active;
\* until it returns the call has no result
DspPlaySynchronous ==
    /\ [][DspPlayStep]_vars
    /\ [](\A t \in DspThreads :
            dop[t] = "play" =>
              /\ dpc[t] = "done" =>
                    ~playing[t] /\ handed[t].len # None /\ dres[t] = "Ok"
              /\ dpc[t] # "done" => dres[t] = "none"
              /\ playing[t] => dpc[t] = "play_poll")

\* a play of the two bytes written before it has returned, playback over
DspPlaySynchronousWitness ==
    \E t \in DspThreads :
      /\ dop[t] = "play" /\ dpc[t] = "done" /\ dres[t] = "Ok"
      /\ handed[t] = [data |-> <<8, 9>>, len |-> 2]
      /\ ~playing[t]
      /\ dspbuf = <<8, 9>>

\* ---- C13 ------------------------------------------------------------------
PlayPcs == {"play_len", "play_start", "play_poll"}

\* thread t takes a step of a play call: entering it, a statement of it, or
\* its return
IsPlayStep(t) ==
    /\ dpc'[t] # dpc[t]
    /\ dpc[t] \in PlayPcs \/ dpc'[t] \in PlayPcs

\* no write_at and no reset took effect between entries i and j of the log
NoChangeBetween(i, j) ==
    \A k \in (i + 1)..(j - 1) : dspLog[k].op \notin {"write_at", "reset"}

\* every call so far was made by thread t
OnlyCaller(t) == \A u \in DspThreads \ {t} : dpc[u] = "idle"

\* C13: no step of PLAY modifies the audio buffer; two PLAYs with no write
\* and no reset between them hand the backend the same bytes; and when no
\* other thread calls the device at all, every PLAY hands the backend the
\* whole buffer with its length, so that a second PLAY hands the same bytes
\* and the same length as the first, and the buffer after a PLAY is the
\* buffer that was played
DspPlayKeepsBuffer ==
    /\ [][\A t \in DspThreads : IsPlayStep(t) => dspbuf' = dspbuf]_vars
    /\ [](\A i, j \in 1..Len(dspLog) :
            (i < j /\ dspLog[i].op = "play" /\ dspLog[j].op = "play"
                   /\ NoChangeBetween(i, j)) =>
                dspLog[j].data = dspLog[i].data)
    /\ [](\A t \in DspThreads :
            OnlyCaller(t) =>
              /\ \A i \in 1..Len(dspLog) :
                    dspLog[i].op = "play" =>
                        dspLog[i].ret = Len(dspLog[i].data)
              /\ (dop[t] = "play" /\ dpc[t] \in {"play_poll", "done"}) =>
                    dspbuf = handed[t].data /\ handed[t].len = Len(dspbuf))

\* one thread wrote two bytes and played them twice: both plays got the same
\* two bytes and the length 2, and the bytes are still in the buffer
DspPlayKeepsBufferWitness ==
    \E t \in DspThreads :
      /\ OnlyCaller(t)
      /\ Len(dspLog) = 3
      /\ dspLog[1].op = "write_at" /\ dspLog[1].data = <<8, 9>>
      /\ dspLog[2] = [op |-> "play", data |-> <<8, 9>>, ret |-> 2]
      /\ dspLog[3] = [op |-> "play", data |-> <<8, 9>>, ret |-> 2]
      /\ dpc[t] = "done" /\ dop[t] = "play"
      /\ dspbuf = <<8, 9>>

\* ---- C17 ------------------------------------------------------------------
\* C17: the buffer's lock covers the whole of PLAY: from the reading of the
\* length until the backend has finished, the buffer is the one whose length
\* was read, and the bytes and the length handed to the backend are those of
\* one single buffer state, which is still the buffer's state
DspLockCoversPlay ==
    \A t \in DspThreads :
      /\ dpc[t] = "play_start" => dlen[t] = Len(dspbuf)
      /\ dpc[t] = "play_poll" =>
            /\ handed[t].len = Len(handed[t].data)
            /\ handed[t].data = dspbuf

\* ---- C20 ------------------------------------------------------------------
\* the statement thread t is at inside a play call can be executed
PlayCanStep(t) ==
    /\ dpc[t] = "play_len" => ENABLED DspPlayLen(t)
    /\ dpc[t] = "play_start" => ENABLED DspPlayStart(t)
    /\ (dpc[t] = "play_poll" /\ ~playing[t]) => ENABLED DspPlayReturn(t)

\* a thread outside a call can write to the device or reset it
OthersCanProceed ==
    \A u \in DspThreads :
      (dpc[u] \in {"idle", "done"} /\ dcalls < MaxDspOps) =>
          ENABLED DspWriteAt(u, 0, <<7>>) /\ ENABLED DspReset(u, 0)

\* C20: PLAY does not deadlock on the buffer's lock: every acquisition in it
\* is released before the next one and before the poll loop, so the lock is
\* free between its statements, while it polls and after it returned, each
\* of its statements can run, and a write_at or a control of another caller
\* can proceed; and a PLAY whose backend comes to report playback inactive
\* returns
DspPlayTerminates ==
    /\ [](dspLock = {})
    /\ [](\A t \in DspThreads : PlayCanStep(t))
    /\ [](OthersCanProceed)
    /\ \A t \in DspThreads : (dpc[t] \in PlayPcs) ~> (dpc[t] = "done")

\* while one thread polls the active backend another one has written and
\* returned
DspPlayTerminatesWitness ==
    \E t, u \in DspThreads :
      /\ dpc[t] = "play_poll" /\ playing[t]
      /\ handed[t].data = <<7, 7>>
      /\ dop[u] = "write_at" /\ dpc[u] = "done" /\ dres[u] = "Ok"
      /\ dspbuf = <<7, 7, 7>>
      /\ dspLock = {}

\* ---- C14 ------------------------------------------------------------------
TypeInode ==
    /\ fsres.node \in Nodes \cup {"none"}
    /\ fsres.op \in InodeOps \cup {"read_at", "write_at", "none"}
    /\ fsres.res \in {"Ok", "NotSupported", "NotDir", "panic", "none"}

StructuralOps == {"metadata", "resize", "create", "unlink", "link", "move_",
                  "find", "get_entry"}

DeviceStateKept == UNCHANGED <<stdinVars, gpioVars, dspVars>>

\* C14: on every device node and in every state, metadata and resize return
\* NotSupported, and create, unlink, link, move_, find and get_entry return
\* NotDir; the call changes no device state: not the queue, not the audio
\* buffer, not the pin selector
InodeStructuralFails ==
    /\ [](TypeInode)
    /\ [](fsres.op \in {"metadata", "resize"} => fsres.res = "NotSupported")
    /\ [](fsres.op \in StructuralOps \ {"metadata", "resize"} =>
              fsres.res = "NotDir")
    /\ [][(fsres' # fsres /\ fsres'.op \in StructuralOps) => DeviceStateKept]_vars

\* resize was refused on the audio sink while the queue, the audio buffer and
\* the pin selector all hold something
InodeStructuralFailsWitness ==
    /\ fsres = [node |-> "DSP", op |-> "resize", res |-> "NotSupported"]
    /\ buf = <<104, 104>>
    /\ dspbuf = <<7, 7>>
    /\ pin = 12

\* ---- C15 ------------------------------------------------------------------
SyncOps == {"sync_all", "sync_data"}

\* C15 as stated: sync_all and sync_data on a device node fail with
\* NotSupported or NotDir
InodeSyncFails ==
    fsres.op \in SyncOps => fsres.res \in {"NotSupported", "NotDir"}

\* C15: sync_all and sync_data on every device node return Ok and change no
\* device state: they are accepted as no-ops
InodeSyncSucceeds ==
    /\ [](fsres.op \in SyncOps => fsres.res = "Ok")
    /\ [][(fsres' # fsres /\ fsres'.op \in SyncOps) => DeviceStateKept]_vars

\* sync_all returned Ok on the pin node with pin 12 selected
InodeSyncSucceedsWitness ==
    /\ fsres = [node |-> "GPIO", op |-> "sync_all", res |-> "Ok"]
    /\ pin = 12
    /\ buf # <<>>

\* ---- C19 ------------------------------------------------------------------
\* the calls against a node's direction
WrongDirection ==
    \/ fsres.node = "STDIN" /\ fsres.op = "write_at"
    \/ fsres.node \in {"STDOUT", "DSP", "GPIO"} /\ fsres.op = "read_at"

\* C19: write_at on the console input, and read_at on the console output,
\* the audio sink and the pin node, end in unimplemented!(): the call returns
\* neither Ok nor an error, and it leaves the queue and every other device
\* state as they were
WrongDirectionFatal ==
    /\ [](WrongDirection => fsres.res = "panic")
    /\ [](fsres.op \in {"read_at", "write_at"} => WrongDirection)
    /\ [][(fsres' # fsres /\ fsres'.op \in {"read_at", "write_at"}) =>
             buf' = buf /\ DeviceStateKept]_vars

\* write_at on the console input panicked with two characters queued
WrongDirectionFatalWitness ==
    /\ fsres = [node |-> "STDIN", op |-> "write_at", res |-> "panic"]
    /\ buf = <<104, 104>>
    /\ pushed = <<104, 104>>

\* ---- C16 ------------------------------------------------------------------
\* the queue was empty and the first two characters pushed are 'h' and 'i'
PushedHI == Len(pushed) >= 2 /\ pushed[1] = 104 /\ pushed[2] = 105

\* C16 as stated: after push 'h' and push 'i' the first pop returns 'h', and
\* the second pop returns only after the next push, with the character of
\* that push
ScenarioSecondPopBlocks ==
    PushedHI =>
      /\ Len(popped) >= 1 => popped[1] = 104
      /\ Len(popped) >= 2 => Len(pushed) >= 3 /\ popped[2] = pushed[3]

\* a step in which a pop returns: the consumer gets the character taken
PopReturnStep ==
    Len(popped') = Len(popped) + 1 =>
        \E c \in Consumers :
          /\ cpc[c] = "loop" /\ cpc'[c] = "done"
          /\ ret'[c] = popped'[Len(popped')]

\* C16: from the empty queue, after push 'h' and push 'i', the first pop
\* returns 'h' and the second pop returns 'i'; once both are taken the queue
\* is empty and no pop can return before the next push; the third pop
\* returns the character of that push, 'x' after push 'x'
ScenarioHiThenBlock ==
    /\ [](PushedHI =>
            /\ Len(popped) >= 1 => popped[1] = 104
            /\ Len(popped) >= 2 => popped[2] = 105
            /\ Len(popped) >= 3 => Len(pushed) >= 3 /\ popped[3] = pushed[3]
            /\ (Len(popped) = 2 /\ Len(pushed) = 2) =>
                  /\ buf = <<>>
                  /\ \A c \in Consumers : ~ENABLED PopSome(c))
    /\ [][PopReturnStep]_vars

\* 'h', 'i' and 'x' were pushed and three pops returned them in that order,
\* the last one 'x'
ScenarioHiThenBlockWitness ==
    /\ pushed = <<104, 105, 120>>
    /\ popped = <<104, 105, 120>>
    /\ buf = <<>>
    /\ \E c \in Consumers : cpc[c] = "done" /\ ret[c] = 120 /\ npop[c] = 1

\* ---- C18 ------------------------------------------------------------------
\* who holds the selector's lock: an ioctl between write() and the end of
\* the assignment, exclusively; a write_at between read() and the end of the
\* statement that reads the pin, shared
RwHolders ==
    /\ rwWriters = {t \in GpioThreads : gpc[t] = "assign"}
    /\ rwReaders = {t \in GpioThreads : gpc[t] = "into_output"}
    /\ Cardinality(rwWriters) <= 1
    /\ rwWriters = {} \/ rwReaders = {}

\* the selector is replaced only by the one thread holding exclusive access,
\* with no reader inside, and by a whole value in 0..53; a write_at reads it
\* whole while no writer is inside
RwStep ==
    /\ pin' # pin =>
          /\ rwReaders = {}
          /\ \E t \in GpioThreads :
                /\ rwWriters = {t}
                /\ pin' = greq[t] /\ pin' \in 0..53
    /\ \A t \in GpioThreads :
          (gpc[t] = "read" /\ gpc'[t] # "read") =>
              /\ rwWriters = {}
              /\ gpin'[t] = pin
              /\ t \in rwReaders'

\* C18: the pin selector follows a reader/writer discipline: an ioctl holds
\* exclusive access while it replaces the selector and never overlaps the
\* read of a write_at or the update of another ioctl; several write_at may
\* hold shared access together; the pin a write_at works on is the whole
\* value the selector had when the call read it, always in 0..53
GpioRwDiscipline ==
    /\ [](RwHolders)
    /\ [](\A t \in GpioThreads : gpin[t] \in (0..53) \cup {None})
    /\ [](outputs \subseteq 0..53 /\ high \subseteq 0..53)
    /\ [][RwStep]_vars

\* two write_at calls hold shared access at once, both having read pin 12
GpioRwDisciplineWitness ==
    /\ Cardinality(rwReaders) = 2
    /\ rwWriters = {}
    /\ pin = 12
    /\ \A t \in rwReaders : gpin[t] = 12 /\ gpc[t] = "into_output"
====
